---- MODULE Spec2Model ----
(***************************************************************************)
(* Resource discovery and aggregation of the career advisor:               *)
(*   CareerService._find_resources_for_skills  (application/services)      *)
(*   WebSearcher.find_resources_for_skill      (infrastructure/searcher)   *)
(*   VectorResourceRepository / ChromaVectorStore (store reads and writes) *)
(*   run_agent_async / searcher.find_resources_for_skill (standalone agent)*)
(* One call is modelled from its entry to its return; every await of the   *)
(* code is a step of the model.                                            *)
(***************************************************************************)
EXTENDS Integers, Sequences, FiniteSets, TLC

\* ------------------------------------------------------------------------
\* Program constants
\* ------------------------------------------------------------------------
FallbackThreshold == 5
SearchLimit == 5
BucketCap == 10
TopN == 3
HttpOk == 200

\* ------------------------------------------------------------------------
\* Bounds of the model
\* ------------------------------------------------------------------------
MaxSkills == 2

SkillNames == {"Python", "SQL"}

\* ------------------------------------------------------------------------
\* Generic sequence helpers
\* ------------------------------------------------------------------------
\* Mutant of Take: the whole list.
Take_All(s, n) ==
    s

Take(s, n) == SubSeq(s, 1, IF Len(s) < n THEN Len(s) ELSE n)

MapSeq(f(_), s) == [k \in 1..Len(s) |-> f(s[k])]

SeqsUpTo(S, n) == UNION {[1..m -> S] : m \in 0..n}

Range(s) == {s[k] : k \in 1..Len(s)}

\* ------------------------------------------------------------------------
\* Domain entities
\* ------------------------------------------------------------------------
\* ResourceType enum values
COURSE == "course"
ARTICLE == "article"
VACANCY == "vacancy"
PROJECT == "project"
COMPETITION == "competition"

\* Keys of the per-category dictionaries, in insertion order.
Categories == <<"courses", "articles", "vacancies", "projects", "competitions">>

CategorySet == Range(Categories)

\* The categories CareerService reads from the store and merges, in call order.
QueriedCategories == <<"courses", "articles", "projects", "competitions">>

TypeOf(category) ==
    CASE category = "courses" -> COURSE
      [] category = "articles" -> ARTICLE
      [] category = "vacancies" -> VACANCY
      [] category = "projects" -> PROJECT
      [] category = "competitions" -> COMPETITION

\* A Resource object.  origin and iter are history fields of the model: where
\* the object was built ("store": _metadata_to_resource, "web": a parser) and
\* the position in the skill list of the loop iteration that obtained it
\* (0 until known).
Resource(title, url, rtype, source) ==
    [title |-> title, url |-> url, resource_type |-> rtype, skill |-> "",
     source |-> source, origin |-> "web", iter |-> 0]

EmptyBuckets ==
    [c \in CategorySet |-> <<>>]

\* ------------------------------------------------------------------------
\* What the web sources serve
\* ------------------------------------------------------------------------
\* The six requests of one fan-out, in task order (web_searcher.py 165-180).
COURSERA == 1
STEPIK == 2
HABR_ARTICLES == 3
HABR_VACANCIES == 4
GITHUB == 5
KAGGLE == 6

Sources == {COURSERA, STEPIK, HABR_ARTICLES, HABR_VACANCIES, GITHUB, KAGGLE}

\* An attribute or key that is not there.
Missing == "<missing>"

\* One matching element of an HTML page, as the parsers see it: its text, whether
\* the title sub-element and the link element are found, and the link's href
\* (Missing when the anchor has no href attribute).
El(text, href) ==
    [text |-> text, title_tag |-> TRUE, link_tag |-> TRUE, href |-> href]

Untitled(href) ==
    [text |-> "", title_tag |-> FALSE, link_tag |-> TRUE, href |-> href]

Unlinked(text) ==
    [text |-> text, title_tag |-> TRUE, link_tag |-> FALSE, href |-> Missing]

Bare ==
    [text |-> "", title_tag |-> FALSE, link_tag |-> FALSE, href |-> Missing]

\* One entry of the "items" list of a repository search answer.
Repo(name, html_url) ==
    [name |-> name, html_url |-> html_url]

\* A JSON document: kind is "dict", "list" (valid JSON that is not an object)
\* or "invalid" (json() raises); items is "list", "null" or "absent".
JsonDoc(kind, items, repos) ==
    [kind |-> kind, items |-> items, repos |-> repos]

EmptyDict ==
    JsonDoc("dict", "absent", <<>>)

\* Profile "A": well-formed pages whose results depend on the query.
PageA(source, skill) ==
    CASE source = COURSERA ->
           <<El("Course " \o skill \o " 1", "/learn/" \o skill \o "-1"),
             El("Course " \o skill \o " 2", "/learn/" \o skill \o "-2"),
             El("Course " \o skill \o " 3", "/learn/" \o skill \o "-3")>>
      [] source = STEPIK ->
           <<El("Stepik " \o skill \o " 1", "/course/" \o skill \o "-1"),
             El("Stepik " \o skill \o " 2", "/course/" \o skill \o "-2"),
             El("Stepik " \o skill \o " 3", "/course/" \o skill \o "-3")>>
      [] source = HABR_ARTICLES ->
           <<El("Post " \o skill \o " 1", "https://habr.com/ru/post/" \o skill \o "-1"),
             El("Post " \o skill \o " 2", "https://habr.com/ru/post/" \o skill \o "-2")>>
      [] source = HABR_VACANCIES ->
           <<El("Job " \o skill \o " 1", "/vacancies/" \o skill \o "-1"),
             El("Job " \o skill \o " 2", "/vacancies/" \o skill \o "-2")>>
      [] source = GITHUB ->
           JsonDoc("dict", "list",
                   <<Repo("repo-" \o skill \o "-1", "https://github.com/" \o skill \o "/1"),
                     Repo("repo-" \o skill \o "-2", "https://github.com/" \o skill \o "/2")>>)
      [] source = KAGGLE ->
           <<El("Cup " \o skill, "/c/" \o skill)>>

\* Profile "B": pages that do not depend on the query, with more than three
\* entries, blank titles, missing sub-elements, a course link that is already
\* absolute and links that also occur in another category.
PageB(source) ==
    CASE source = COURSERA ->
           <<El(" Intro ", "/learn/intro"), Unlinked("Offline"),
             El("  ", "/learn/blank"), El("Fourth", "/learn/4")>>
      [] source = STEPIK ->
           <<El("", "/course/1"), El("Basics", "/course/2"),
             El("More", "https://stepik.org/course/3"), El("Fourth", "/course/4")>>
      [] source = HABR_ARTICLES ->
           <<Bare, El("Post", "https://stepik.org/course/2"),
             Untitled("https://habr.com/ru/post/9")>>
      [] source = HABR_VACANCIES ->
           <<Bare, El("Dev", "/vacancies/1")>>
      [] source = GITHUB ->
           JsonDoc("dict", "list",
                   <<Repo("intro", "https://www.coursera.org/learn/intro"),
                     Repo("nolink", Missing),
                     Repo(Missing, "https://github.com/x/3"),
                     Repo("fourth", "https://github.com/x/4")>>)
      [] source = KAGGLE ->
           <<Bare, El("Titanic", "/c/titanic"), Unlinked("Closed")>>

\* Profile "C": as "A", but for the query "SQL" one Stepik anchor carries no
\* href attribute.
PageC(source, skill) ==
    IF source = STEPIK /\ skill = "SQL"
    THEN <<El("Stepik " \o skill, "/course/" \o skill), El("Broken", Missing)>>
    ELSE PageA(source, skill)

\* Profile "D": as "A", but the repository search answers {"items": null}.
PageD(source, skill) ==
    IF source = GITHUB THEN JsonDoc("dict", "null", <<>>) ELSE PageA(source, skill)

\* Profile "E": as "B", but the repository search answers {"items": null}.
PageE(source) ==
    IF source = GITHUB THEN JsonDoc("dict", "null", <<>>) ELSE PageB(source)

\* Profile "N": every source answers, none lists a result.
PageN(source) ==
    IF source = GITHUB THEN JsonDoc("dict", "list", <<>>) ELSE <<>>

Page(web, source, skill) ==
    CASE web = "A" -> PageA(source, skill)
      [] web = "B" -> PageB(source)
      [] web = "C" -> PageC(source, skill)
      [] web = "D" -> PageD(source, skill)
      [] web = "E" -> PageE(source)
      [] web = "N" -> PageN(source)

\* The document a server sends with an error status.
ErrorPage(source) ==
    IF source = GITHUB THEN EmptyDict ELSE <<>>

\* Failure injected into the requests to one source: none; "error" (the request
\* raises: transport error or timeout); "status" (error status with an error
\* document); "status_body" (error status, the body holds results all the same).
NoFailure == [src |-> 0, kind |-> "none"]

Failures ==
    {NoFailure} \cup [src : Sources, kind : {"error", "status", "status_body"}]

\* The outcome of one GET: the request raised, or a response arrived.
HttpOutcome(web, fail, source, skill) ==
    IF fail.src = source /\ fail.kind = "error"
    THEN [raised |-> TRUE, status |-> 0, body |-> <<>>]
    ELSE IF fail.src = source /\ fail.kind = "status"
    THEN [raised |-> FALSE, status |-> 500, body |-> ErrorPage(source)]
    ELSE IF fail.src = source /\ fail.kind = "status_body"
    THEN [raised |-> FALSE, status |-> 500, body |-> Page(web, source, skill)]
    ELSE [raised |-> FALSE, status |-> HttpOk, body |-> Page(web, source, skill)]

\* The web behaviours explored: every single-source failure over profile "A",
\* and profiles "B", "C", "D", "E" and "N" without failure.
WebScenarios ==
    {[web |-> "A", fail |-> f] : f \in Failures}
        \cup {[web |-> w, fail |-> NoFailure] : w \in {"B", "C", "D", "E", "N"}}

\* ------------------------------------------------------------------------
\* WebSearcher: fetch and the six parsers
\* ------------------------------------------------------------------------
\* str.strip() on the texts the pages use: surrounding blanks go, a text of
\* blanks only becomes empty.
Strip(text) ==
    CASE text = "  " -> ""
      [] text = " Intro " -> "Intro"
      [] OTHER -> text

\* The text of a page without any matching element (also the empty string).
EmptyHtml == <<>>

\* fetch_text: the page text on status 200, "" on any other status and on any
\* exception; it never raises.
fetch_text(outcome) ==
    IF outcome.raised THEN EmptyHtml
    ELSE IF outcome.status # HttpOk THEN EmptyHtml
    ELSE outcome.body

\* What gather() hands back for the repository request, session.get(...) itself:
\* the exception, or the response whatever its status.
github_get(outcome) ==
    IF outcome.raised
    THEN [is_response |-> FALSE, status |-> 0, body |-> EmptyDict]
    ELSE [is_response |-> TRUE, status |-> outcome.status, body |-> outcome.body]

\* github_data: {} unless a response arrived whose body json() can read.
github_json(github_resp) ==
    IF github_resp.is_response /\ github_resp.body.kind # "invalid"
    THEN github_resp.body
    ELSE EmptyDict

\* A parser's outcome: raised (an exception leaves the parser) or its list.
Parsed(raised, out) ==
    [raised |-> raised, out |-> IF raised THEN <<>> ELSE out]

\* link_tag['href'] on an anchor without href raises KeyError.
HrefRaises(results) ==
    \E k \in 1..Len(results) : results[k].link_tag /\ results[k].href = Missing

CourseraCourse(res) ==
    Resource(Strip(res.text),
             IF res.link_tag THEN "https://www.coursera.org" \o res.href ELSE "",
             COURSE, "coursera")

parse_courses_from_coursera(html) ==
    LET results == Take(html, TopN)
    IN  Parsed(HrefRaises(results),
               MapSeq(CourseraCourse,
                      SelectSeq(results, LAMBDA res : Strip(res.text) # "")))

StepikCourse(res) ==
    Resource(Strip(res.text), "https://stepik.org" \o res.href, COURSE, "stepik")

parse_courses_from_stepik(html) ==
    LET results == Take(html, TopN)
    IN  Parsed(\E k \in 1..Len(results) : results[k].href = Missing,
               MapSeq(StepikCourse, results))

\* The placeholder titles, in Russian in the source, are written in English.
HabrArticle(res) ==
    Resource(IF res.title_tag THEN Strip(res.text) ELSE "Article",
             IF res.link_tag THEN res.href ELSE "",
             ARTICLE, "habr")

parse_articles_from_habr(html) ==
    LET results == Take(html, TopN)
    IN  Parsed(HrefRaises(results), MapSeq(HabrArticle, results))

\* The card's anchor gives both the title and the link.
HabrVacancy(card) ==
    Resource(IF card.link_tag THEN Strip(card.text) ELSE "Vacancy",
             IF card.link_tag THEN "https://career.habr.com" \o card.href ELSE "",
             VACANCY, "habr_career")

parse_vacancies_from_habr(html) ==
    LET cards == Take(html, TopN)
    IN  Parsed(HrefRaises(cards), MapSeq(HabrVacancy, cards))

GithubProject(repo) ==
    Resource(IF repo.name = Missing THEN "" ELSE repo.name,
             IF repo.html_url = Missing THEN "" ELSE repo.html_url,
             PROJECT, "github")

\* json_data.get('items', [])[:3]: .get raises on a document that is no dict,
\* the slice raises on "items": null.
parse_projects_from_github(json_data) ==
    IF json_data.kind # "dict" \/ json_data.items = "null"
    THEN Parsed(TRUE, <<>>)
    ELSE Parsed(FALSE,
                MapSeq(GithubProject,
                       Take(IF json_data.items = "absent" THEN <<>> ELSE json_data.repos,
                            TopN)))

KaggleCompetition(card) ==
    Resource(IF card.title_tag THEN Strip(card.text) ELSE "Competition",
             IF card.link_tag THEN "https://www.kaggle.com" \o card.href ELSE "",
             COMPETITION, "kaggle")

parse_competitions_from_kaggle(html) ==
    LET cards == Take(html, TopN)
    IN  Parsed(HrefRaises(cards), MapSeq(KaggleCompetition, cards))

\* ------------------------------------------------------------------------
\* The semantic store (VectorResourceRepository over ChromaVectorStore)
\* ------------------------------------------------------------------------
\* One row of a query answer: the metadata of a stored resource; valid is
\* whether _metadata_to_resource can convert it.
Row(url) ==
    [url |-> url, valid |-> TRUE]

BadRow ==
    [url |-> "https://example.org/bad", valid |-> FALSE]

\* The rows that match skill and category, in rank order, for each store content
\* explored.  "few" holds 4 rows per skill (a course that the web also lists, a
\* url filed under two categories, a url shared by all skills); "enough" holds 5
\* resources per skill (with an empty url and an unreadable row); "courses"
\* holds 6 courses for Python and 4 for SQL, the last of them also a course for
\* Python.
StoreRows(store, skill, category) ==
    CASE store = "empty" -> <<>>
      [] store = "few" ->
           CASE category = "courses" ->
                  <<Row("https://stepik.org/course/" \o skill \o "-1"),
                    Row("https://example.org/" \o skill \o "/guide")>>
             [] category = "articles" ->
                  <<Row("https://example.org/" \o skill \o "/guide"),
                    Row("https://habr.com/ru/post/shared")>>
             [] OTHER -> <<>>
      [] store = "enough" ->
           CASE category = "courses" ->
                  <<Row("https://example.org/" \o skill \o "/c1"),
                    Row("https://example.org/shared")>>
             [] category = "articles" -> <<Row("https://example.org/shared")>>
             [] category = "projects" -> <<Row("")>>
             [] category = "competitions" ->
                  <<BadRow, Row("https://www.kaggle.com/c/" \o skill)>>
             [] OTHER -> <<>>
      [] store = "courses" ->
           CASE category = "courses" ->
                  IF skill = "Python"
                  THEN [k \in 1..6 |->
                          Row("https://example.org/py/" \o ToString(k))]
                  ELSE [k \in 1..4 |->
                          Row(IF k = 4 THEN "https://example.org/py/1"
                              ELSE "https://example.org/sql/" \o ToString(k))]
             [] OTHER -> <<>>

StoreContents == {"empty", "few", "enough", "courses", "broken", "flaky"}

\* Whether collection.query raises: the "broken" and "flaky" stores hold the
\* rows of "enough"; every query for Python raises on the "broken" store, the
\* query for the articles of Python raises on the "flaky" one.
QueryRaises(store, skill, category) ==
    \/ store = "broken" /\ skill = "Python"
    \/ store = "flaky" /\ skill = "Python" /\ category = "articles"

\* Mutant of search_raises: the except clause raises again, as the one of
\* add_documents does.
search_raises_Reraise(store, skill, category) ==
    QueryRaises(store, skill, category)

\* Whether ChromaVectorStore.search raises: never, "except Exception" of lines
\* 134-136 logs and returns [].
search_raises(store, skill, category) ==
    FALSE

\* ChromaVectorStore.search: at most n_results matching rows; an exception of
\* the query is logged and the answer is the empty list.
vector_store_search(store, skill, category, n_results) ==
    IF QueryRaises(store, skill, category) THEN <<>>
    ELSE Take(StoreRows(IF store \in {"broken", "flaky"} THEN "enough" ELSE store,
                        skill, category),
              n_results)

\* _metadata_to_resource, for a row that converts.
StoredResource(row, skill, category) ==
    [title |-> "stored", url |-> row.url, resource_type |-> TypeOf(category),
     skill |-> skill, source |-> "store", origin |-> "store", iter |-> 0]

\* VectorResourceRepository.search_by_skill: the rows converted, the rows that
\* do not convert skipped.
search_by_skill(store, skill, category, limit) ==
    LET results == vector_store_search(store, skill, category, limit)
        StoredAs(row) == StoredResource(row, skill, category)
    IN  MapSeq(StoredAs, SelectSeq(results, LAMBDA row : row.valid))

\* ------------------------------------------------------------------------
\* Deduplication and cap (career_service.py 240-248)
\* ------------------------------------------------------------------------
\* Mutant of IsNewUrl: the set of seen urls is not consulted.
IsNewUrl_IgnoreSeen(url, seen_urls) ==
    url # ""

\* Mutant of IsNewUrl: an empty url counts as a url.
IsNewUrl_KeepEmpty(url, seen_urls) ==
    url \notin seen_urls

\* "if resource.url and resource.url not in seen_urls"
IsNewUrl(url, seen_urls) ==
    url # "" /\ url \notin seen_urls

\* The inner loop over one category: the resources kept and the set of seen
\* urls after it.
RECURSIVE UniqueResources(_, _, _)
UniqueResources(resources, seen_urls, unique_resources) ==
    IF resources = <<>>
    THEN [unique |-> unique_resources, seen |-> seen_urls]
    ELSE LET resource == Head(resources)
         IN  IF IsNewUrl(resource.url, seen_urls)
             THEN UniqueResources(Tail(resources), seen_urls \cup {resource.url},
                                  Append(unique_resources, resource))
             ELSE UniqueResources(Tail(resources), seen_urls, unique_resources)

\* Mutant of Capped: the list is not cut.
Capped_NoCut(unique_resources) ==
    unique_resources

\* "unique_resources[:10]"
Capped(unique_resources) ==
    Take(unique_resources, BucketCap)

\* seen_urls as it stands when the outer loop reaches the n-th category: it is
\* created once, before the loop, and never reset.
RECURSIVE SeenBefore(_, _)
SeenBefore(by_category, n) ==
    IF n = 1 THEN {}
    ELSE UniqueResources(by_category[Categories[n - 1]],
                         SeenBefore(by_category, n - 1), <<>>).seen

CategoryIndex(category) ==
    CHOOSE n \in 1..Len(Categories) : Categories[n] = category

\* The whole loop: every category's list replaced by its capped unique list.
RemoveDuplicates(by_category) ==
    [c \in DOMAIN by_category |->
        Capped(UniqueResources(by_category[c],
                               SeenBefore(by_category, CategoryIndex(c)),
                               <<>>).unique)]

\* ------------------------------------------------------------------------
\* State
\* ------------------------------------------------------------------------
VARIABLES
    skills,                 \* the argument of the call
    web_searcher,           \* whether self.web_searcher is set
    env,                    \* what the store holds and what the web serves
    pc,                     \* position of the call
    i,                      \* position of the current skill in skills
    q,                      \* which of the four store reads comes next
    lists,                  \* the locals courses, articles, projects, competitions
    responses,              \* the six requests of the running fan-out
    web_found,              \* the lists parsed by find_resources_for_skill
    resources_by_category,  \* the dictionary that is returned
    result,                 \* what find_resources_for_skills returned
    concatenated,           \* history: resources_by_category before deduplication
    store_calls,            \* history: the store reads made
    requests,               \* history: the requests issued
    save_calls,             \* history: the save_batch calls made
    hist,                   \* history: one record per skill resolved
    agent_pc,               \* position of run_agent_async
    tasks,                  \* run_agent_async: one task per missing skill
    resources_by_skill,     \* run_agent_async: the dictionary of step 3
    combined_recommendations, \* run_agent_async: the lists of step 4
    calls                   \* two calls in flight on one CareerService

vars ==
    <<skills, web_searcher, env, pc, i, q, lists, responses, web_found,
      resources_by_category, result, concatenated, store_calls, requests,
      save_calls, hist, agent_pc, tasks, resources_by_skill,
      combined_recommendations, calls>>

service_vars ==
    <<web_searcher, pc, i, q, lists, responses, web_found, resources_by_category,
      result, concatenated, store_calls, save_calls, hist>>

agent_vars ==
    <<agent_pc, tasks, resources_by_skill, combined_recommendations>>

pair_vars ==
    <<calls>>

\* No value yet: a dictionary without keys.
NoResult == <<>>

EmptyLists ==
    [c \in Range(QueriedCategories) |-> <<>>]

\* A request that is not made yet: it has no response.
NotStarted ==
    [state |-> "none", outcome |-> [raised |-> TRUE, status |-> 0, body |-> <<>>]]

Idle ==
    [k \in Sources |-> NotStarted]

Envs ==
    [store : StoreContents, scen : WebScenarios, save_ok : BOOLEAN]

QuietEnv(store) ==
    [store |-> store, scen |-> [web |-> "A", fail |-> NoFailure], save_ok |-> TRUE]

\* A call of _find_resources_for_skills about to run, for every skill list up
\* to MaxSkills, with and without a web searcher.  Without one the web is never
\* asked, so only the store content varies.
Init ==
    /\ skills \in SeqsUpTo(SkillNames, MaxSkills)
    /\ web_searcher \in BOOLEAN
    /\ env \in Envs
    /\ ~web_searcher => env = QuietEnv(env.store)
    /\ pc = "loop"
    /\ i = 0
    /\ q = 0
    /\ lists = EmptyLists
    /\ responses = Idle
    /\ web_found = EmptyBuckets
    /\ resources_by_category = EmptyBuckets
    /\ result = NoResult
    /\ concatenated = EmptyBuckets
    /\ store_calls = <<>>
    /\ requests = <<>>
    /\ save_calls = <<>>
    /\ hist = <<>>
    /\ agent_pc = "idle"
    /\ tasks = <<>>
    /\ resources_by_skill = NoResult
    /\ combined_recommendations = EmptyBuckets
    /\ calls = <<>>

\* ------------------------------------------------------------------------
\* CareerService._find_resources_for_skills, step by step
\* ------------------------------------------------------------------------
LastHist(field, value) ==
    [hist EXCEPT ![Len(hist)] = [@ EXCEPT ![field] = value]]

\* "for skill in skills": the next skill, its four lists empty.
ForSkill ==
    /\ pc = "loop"
    /\ i < Len(skills)
    /\ i' = i + 1
    /\ q' = 1
    /\ lists' = EmptyLists
    /\ pc' = "search"
    /\ UNCHANGED <<skills, web_searcher, env, responses, web_found,
                   resources_by_category, result, concatenated, store_calls, requests,
                   save_calls, hist,
                   agent_vars, pair_vars>>

\* One "await self.resource_repo.search_by_skill(skill, resource_type, limit=5)".
\* The resources are stamped with the iteration that read them.  Nothing around
\* the read catches an exception: one that left search_by_skill would end the
\* call ("aborted").
SearchBySkill ==
    /\ pc = "search"
    /\ LET category == QueriedCategories[q]
           Stamp(r) == [r EXCEPT !.iter = i]
           found == MapSeq(Stamp, search_by_skill(env.store, skills[i], category,
                                                  SearchLimit))
           raised == search_raises(env.store, skills[i], category)
       IN  /\ lists' = IF raised THEN lists ELSE [lists EXCEPT ![category] = found]
           /\ store_calls' = Append(store_calls,
                  [iter |-> i, category |-> category,
                   failed |-> QueryRaises(env.store, skills[i], category)])
           /\ IF raised
              THEN q' = 0 /\ pc' = "aborted"
              ELSE IF q < Len(QueriedCategories)
              THEN q' = q + 1 /\ pc' = "search"
              ELSE q' = 0 /\ pc' = "threshold"
    /\ UNCHANGED <<skills, web_searcher, env, i, responses, web_found,
                   resources_by_category, result, concatenated, requests, save_calls, hist,
                   agent_vars, pair_vars>>

StoreCount(l) ==
    Len(l["courses"]) + Len(l["articles"]) + Len(l["projects"])
        + Len(l["competitions"])

\* Mutant of NeedsFallback: the comparison includes the threshold.
NeedsFallback_Inclusive(l, searcher) ==
    StoreCount(l) <= FallbackThreshold /\ searcher

\* "if len(courses) + ... < 5 and self.web_searcher"
NeedsFallback(l, searcher) ==
    StoreCount(l) < FallbackThreshold /\ searcher

Threshold ==
    /\ pc = "threshold"
    /\ pc' = IF NeedsFallback(lists, web_searcher) THEN "web_start" ELSE "extend"
    /\ hist' = Append(hist, [iter |-> i, skill |-> skills[i], store |-> lists,
                             fallback |-> NeedsFallback(lists, web_searcher),
                             parsed |-> EmptyBuckets, returned |-> FALSE,
                             raised |-> FALSE])
    /\ UNCHANGED <<skills, web_searcher, env, i, q, lists, responses, web_found,
                   resources_by_category, result, concatenated, store_calls, requests,
                   save_calls,
                   agent_vars, pair_vars>>

\* Mutant of SourceRequests: every source is asked a second time.
SourceRequests_Twice(iter) ==
    [k \in 1..12 |-> [iter |-> iter, source |-> ((k - 1) % 6) + 1]]

\* Lines 165-180: the list tasks, one request per source, in this order.
SourceRequests(iter) ==
    [k \in 1..6 |-> [iter |-> iter, source |-> k]]

\* find_resources_for_skill up to gather(): the six requests are created in task
\* order and started together.
WebStart ==
    /\ pc = "web_start"
    /\ responses' = [k \in Sources |-> [NotStarted EXCEPT !.state = "pending"]]
    /\ requests' = requests \o SourceRequests(i)
    /\ web_found' = EmptyBuckets
    /\ pc' = "gather"
    /\ UNCHANGED <<skills, web_searcher, env, i, q, lists, resources_by_category,
                   result, concatenated, store_calls, save_calls, hist,
                   agent_vars, pair_vars>>

\* Mutant of fetch_ends: without a timeout, a request that gets no answer never
\* ends.
fetch_ends_NoTimeout(fail, k) ==
    ~(fail.src = k /\ fail.kind = "error")

\* "timeout=aiohttp.ClientTimeout(total=10)" on the session (line 163) and on
\* each fetch_text request (line 41): a request ends, with TimeoutError when
\* its 10 seconds are over.
fetch_ends(fail, k) ==
    TRUE

\* One request ends, in any order: it raised, or its response arrived.
FetchComplete(k) ==
    /\ pc = "gather"
    /\ responses[k].state = "pending"
    /\ fetch_ends(env.scen.fail, k)
    /\ responses' = [responses EXCEPT ![k] =
           [state |-> "done",
            outcome |-> HttpOutcome(env.scen.web, env.scen.fail, k, skills[i])]]
    /\ UNCHANGED <<skills, web_searcher, env, pc, i, q, lists, web_found,
                   resources_by_category, result, concatenated, store_calls, requests,
                   save_calls, hist,
                   agent_vars, pair_vars>>

\* Lines 186-208: the six outcomes of the gather turned into parser outcomes.
ParseAll(resp) ==
    [courses1 |-> parse_courses_from_coursera(fetch_text(resp[COURSERA].outcome)),
     courses2 |-> parse_courses_from_stepik(fetch_text(resp[STEPIK].outcome)),
     articles |-> parse_articles_from_habr(fetch_text(resp[HABR_ARTICLES].outcome)),
     vacancies |-> parse_vacancies_from_habr(fetch_text(resp[HABR_VACANCIES].outcome)),
     projects |-> parse_projects_from_github(github_json(github_get(resp[GITHUB].outcome))),
     competitions |-> parse_competitions_from_kaggle(fetch_text(resp[KAGGLE].outcome))]

AnyParserRaised(p) ==
    \/ p.courses1.raised \/ p.courses2.raised \/ p.articles.raised
    \/ p.vacancies.raised \/ p.projects.raised \/ p.competitions.raised

\* The six requests of a fan-out, each ended with what the web serves.
Answered(web, fail, skill) ==
    [m \in Sources |->
        [state |-> "done", outcome |-> HttpOutcome(web, fail, m, skill)]]

\* Mutant of stamp_skill: the resource is left as the parser built it.
stamp_skill_Skip(r, skill) ==
    r

\* Lines 212-213: "resource.skill = skill"
stamp_skill(r, skill) ==
    [r EXCEPT !.skill = skill]

\* Lines 204-213 and 220-226: the dictionary of the five lists, every resource
\* stamped with the skill.
FoundLists(p, skill, iter) ==
    LET Stamp(r) == [stamp_skill(r, skill) EXCEPT !.iter = iter]
    IN  [c \in CategorySet |->
            MapSeq(Stamp,
                   CASE c = "courses" -> p.courses1.out \o p.courses2.out
                     [] c = "articles" -> p.articles.out
                     [] c = "vacancies" -> p.vacancies.out
                     [] c = "projects" -> p.projects.out
                     [] c = "competitions" -> p.competitions.out)]

\* "all_resources = courses + articles + vacancies + projects + competitions"
AllResources(found) ==
    found["courses"] \o found["articles"] \o found["vacancies"]
        \o found["projects"] \o found["competitions"]

\* Mutant of gather_done: the first request that ends wakes the caller.
gather_done_FirstCompleted(resp) ==
    \E k \in Sources : resp[k].state = "done"

\* "await asyncio.gather(*tasks, return_exceptions=True)" returns once each of
\* the six has returned or raised.
gather_done(resp) ==
    \A k \in Sources : resp[k].state = "done"

\* gather() returns once all six have ended; the responses are parsed.  A
\* parser's exception leaves find_resources_for_skill.
ParseResponses ==
    /\ pc = "gather"
    /\ gather_done(responses)
    /\ LET p == ParseAll(responses)
           found == FoundLists(p, skills[i], i)
       IN  IF AnyParserRaised(p)
           THEN /\ pc' = "web_raised"
                /\ UNCHANGED web_found
                /\ hist' = LastHist("raised", TRUE)
           ELSE /\ web_found' = found
                /\ hist' = LastHist("parsed", found)
                /\ pc' = IF AllResources(found) # <<>> THEN "save_batch"
                                                       ELSE "web_return"
    /\ UNCHANGED <<skills, web_searcher, env, i, q, lists, responses,
                   resources_by_category, result, concatenated, store_calls, requests,
                   save_calls,
                   agent_vars, pair_vars>>

\* "await self.resource_repository.save_batch(all_resources)": the call is
\* made and find_resources_for_skill is suspended on it.  The record keeps
\* what the call will end with.
SaveBatch ==
    /\ pc = "save_batch"
    /\ save_calls' = Append(save_calls,
           [iter |-> i, resources |-> AllResources(web_found), ok |-> env.save_ok])
    /\ pc' = "saving"
    /\ UNCHANGED <<skills, web_searcher, env, i, q, lists, responses, web_found,
                   resources_by_category, result, concatenated, store_calls, requests,
                   hist,
                   agent_vars, pair_vars>>

\* save_batch ends and find_resources_for_skill goes on: add_documents logs and
\* re-raises what the collection raises, and nothing catches it before
\* CareerService.
SaveBatchDone ==
    /\ pc = "saving"
    /\ IF env.save_ok
       THEN pc' = "web_return" /\ UNCHANGED hist
       ELSE pc' = "web_raised" /\ hist' = LastHist("raised", TRUE)
    /\ UNCHANGED <<skills, web_searcher, env, i, q, lists, responses, web_found,
                   resources_by_category, result, concatenated, store_calls, requests,
                   save_calls,
                   agent_vars, pair_vars>>

\* Mutant of ExtendWithWeb: the web resources are put in front.
ExtendWithWeb_WebFirst(l, web_resources) ==
    [c \in DOMAIN l |-> web_resources[c] \o l[c]]

\* Lines 228-231: what CareerService takes from the returned dictionary.
ExtendWithWeb(l, web_resources) ==
    [c \in DOMAIN l |-> l[c] \o web_resources[c]]

WebReturn ==
    /\ pc = "web_return"
    /\ lists' = ExtendWithWeb(lists, web_found)
    /\ hist' = LastHist("returned", TRUE)
    /\ responses' = Idle
    /\ pc' = "extend"
    /\ UNCHANGED <<skills, web_searcher, env, i, q, web_found,
                   resources_by_category, result, concatenated, store_calls, requests,
                   save_calls,
                   agent_vars, pair_vars>>

\* Mutant of catches_web_error: no except clause around the web fallback.
catches_web_error_Off == FALSE

\* Lines 226 and 232: "try: ... except Exception as e:" around the call of
\* find_resources_for_skill and the four extend calls.
catches_web_error == TRUE

\* Lines 232-233: "except Exception": a warning is logged, nothing else.  An
\* exception that was not caught would end the call ("aborted").
WebRaised ==
    /\ pc = "web_raised"
    /\ responses' = Idle
    /\ pc' = IF catches_web_error THEN "extend" ELSE "aborted"
    /\ UNCHANGED <<skills, web_searcher, env, i, q, lists, web_found,
                   resources_by_category, result, concatenated, store_calls, requests,
                   save_calls, hist,
                   agent_vars, pair_vars>>

\* Mutant of ExtendBuckets: the skill's lists are put in front.
ExtendBuckets_Prepend(by_category, l) ==
    [c \in CategorySet |->
        IF c \in DOMAIN l THEN l[c] \o by_category[c] ELSE by_category[c]]

\* Lines 235-238: the skill's lists appended to the dictionary.
ExtendBuckets(by_category, l) ==
    [c \in CategorySet |->
        IF c \in DOMAIN l THEN by_category[c] \o l[c] ELSE by_category[c]]

Extend ==
    /\ pc = "extend"
    /\ resources_by_category' = ExtendBuckets(resources_by_category, lists)
    /\ pc' = "loop"
    /\ UNCHANGED <<skills, web_searcher, env, i, q, lists, responses, web_found,
                   result, concatenated, store_calls, requests, save_calls, hist,
                   agent_vars, pair_vars>>

\* Resource.to_dict: the fields of the object (the history fields are none).
to_dict(r) ==
    [title |-> r.title, url |-> r.url, resource_type |-> r.resource_type,
     skill |-> r.skill, metadata |-> [source |-> r.source]]

\* Mutant of ToDicts: a category without resources is left out.
ToDicts_DropEmpty(resources) ==
    [k \in {c \in DOMAIN resources : resources[c] # <<>>} |->
        MapSeq(to_dict, resources[k])]

\* find_resources_for_skills, line 144: every list converted, the keys kept.
ToDicts(resources) ==
    [k \in DOMAIN resources |-> MapSeq(to_dict, resources[k])]

\* Lines 240-250 and 143-144: after the last skill the duplicates are removed,
\* the lists are cut and the dictionary is returned, its resources as dicts.
Deduplicate ==
    /\ pc = "loop"
    /\ i = Len(skills)
    /\ concatenated' = resources_by_category
    /\ resources_by_category' = RemoveDuplicates(resources_by_category)
    /\ result' = ToDicts(RemoveDuplicates(resources_by_category))
    /\ pc' = "done"
    /\ UNCHANGED <<skills, web_searcher, env, i, q, lists, responses, web_found,
                   store_calls, requests, save_calls, hist,
                   agent_vars, pair_vars>>

Next ==
    \/ ForSkill
    \/ SearchBySkill
    \/ Threshold
    \/ WebStart
    \/ \E k \in Sources : FetchComplete(k)
    \/ ParseResponses
    \/ SaveBatch
    \/ SaveBatchDone
    \/ WebReturn
    \/ WebRaised
    \/ Extend
    \/ Deduplicate

Spec == Init /\ [][Next]_vars

\* The calls whose termination is explored: a store that answers nothing, one
\* that answers enough, a request through fetch_text and the request to the
\* repository search that end with an exception (a timeout among them), a
\* parser that raises, a save_batch that fails.
LiveEnvs ==
    {e \in Envs : /\ e.store \in {"empty", "enough"}
                  /\ e.scen.fail.kind \in {"none", "error"}
                  /\ e.scen.fail.src \in {0, COURSERA, GITHUB}
                  /\ e.scen.web \in {"A", "C"}}

InitLive ==
    Init /\ env \in LiveEnvs

\* The event loop resumes a coroutine once what it awaits has ended, and every
\* store call and every request ends: a step that can be taken is taken.
FairSpec == InitLive /\ [][Next]_vars /\ WF_vars(Next)

\* ------------------------------------------------------------------------
\* The standalone agent: career_advisor_agent_async (searcher.py, main.py)
\* ------------------------------------------------------------------------
\* A value that is None.
None == "<None>"

\* searcher.fetch_text has no try: an exception leaves it and gather() hands it
\* back in place of the text.
standalone_fetch_text(outcome) ==
    [is_str |-> ~outcome.raised,
     text |-> IF outcome.raised \/ outcome.status # HttpOk THEN EmptyHtml
              ELSE outcome.body]

\* "responses[k] if isinstance(responses[k], str) else """
TextOrEmpty(response) ==
    IF response.is_str THEN response.text ELSE EmptyHtml

\* The standalone parsers build {"title", "url"} dictionaries; their loops are
\* those of the WebSearcher parsers.
AsDict(r) ==
    [title |-> r.title, url |-> r.url, skill |-> None]

DictsOf(parsed) ==
    Parsed(parsed.raised, MapSeq(AsDict, parsed.out))

\* repo.get('name') and repo.get('html_url') give None for an absent key.
StandaloneProject(repo) ==
    [title |-> IF repo.name = Missing THEN None ELSE repo.name,
     url |-> IF repo.html_url = Missing THEN None ELSE repo.html_url,
     skill |-> None]

standalone_parse_projects(json_data) ==
    IF json_data.kind # "dict" \/ json_data.items = "null"
    THEN Parsed(TRUE, <<>>)
    ELSE Parsed(FALSE,
                MapSeq(StandaloneProject,
                       Take(IF json_data.items = "absent" THEN <<>> ELSE json_data.repos,
                            TopN)))

\* searcher.find_resources_for_skill from the return of its gather() on: whether
\* it raises, and the dictionary it returns.
standalone_find_resources(web, fail, skill) ==
    LET Html(k) == TextOrEmpty(standalone_fetch_text(HttpOutcome(web, fail, k, skill)))
        coursera == DictsOf(parse_courses_from_coursera(Html(COURSERA)))
        stepik == DictsOf(parse_courses_from_stepik(Html(STEPIK)))
        articles == DictsOf(parse_articles_from_habr(Html(HABR_ARTICLES)))
        vacancies == DictsOf(parse_vacancies_from_habr(Html(HABR_VACANCIES)))
        projects == standalone_parse_projects(
                        github_json(github_get(HttpOutcome(web, fail, GITHUB, skill))))
        competitions == DictsOf(parse_competitions_from_kaggle(Html(KAGGLE)))
        raised == \/ coursera.raised \/ stepik.raised \/ articles.raised
                  \/ vacancies.raised \/ projects.raised \/ competitions.raised
    IN  [raised |-> raised,
         resources |->
            IF raised THEN EmptyBuckets
            ELSE [c \in CategorySet |->
                    CASE c = "courses" -> coursera.out \o stepik.out
                      [] c = "articles" -> articles.out
                      [] c = "vacancies" -> vacancies.out
                      [] c = "projects" -> projects.out
                      [] c = "competitions" -> competitions.out]]

\* Mutant of ReturnExceptions: gather() without return_exceptions.
ReturnExceptions_Off == FALSE

\* "asyncio.gather(*tasks, return_exceptions=True)"
ReturnExceptions == TRUE

\* Whether the outer gather() raises into run_agent_async.
gather_raises(ts) ==
    ~ReturnExceptions /\ \E t \in 1..Len(ts) : ts[t].state = "raised"

LastIndexOf(skill, skill_list) ==
    CHOOSE t \in 1..Len(skill_list) :
        /\ skill_list[t] = skill
        /\ \A u \in 1..Len(skill_list) : skill_list[u] = skill => u <= t

\* Lines 24-29: zip(missing_skills, results) written into the dictionary; a
\* later entry of the same skill replaces the earlier one.
CollectBySkill(missing_skills, ts) ==
    [s \in Range(missing_skills) |->
        LET t == LastIndexOf(s, missing_skills)
        IN  IF ts[t].state = "raised" THEN EmptyBuckets ELSE ts[t].resources]

\* The keys of the dictionary in insertion order.
RECURSIVE KeysInOrder(_, _)
KeysInOrder(skill_list, seen) ==
    IF skill_list = <<>> THEN <<>>
    ELSE IF Head(skill_list) \in seen THEN KeysInOrder(Tail(skill_list), seen)
    ELSE <<Head(skill_list)>>
             \o KeysInOrder(Tail(skill_list), seen \cup {Head(skill_list)})

\* Lines 31-47: every resource stamped with its skill and appended to the
\* combined list of its category, skill after skill.
RECURSIVE CombineFrom(_, _, _)
CombineFrom(keys, by_skill, category) ==
    IF keys = <<>> THEN <<>>
    ELSE LET skill == Head(keys)
             Stamp(d) == [d EXCEPT !.skill = skill]
         IN  MapSeq(Stamp, by_skill[skill][category])
                 \o CombineFrom(Tail(keys), by_skill, category)

Combine(missing_skills, by_skill) ==
    [c \in CategorySet |-> CombineFrom(KeysInOrder(missing_skills, {}), by_skill, c)]

\* run_agent_async about to search, for every list of missing skills and every
\* web behaviour; the service is not involved.
InitAgent ==
    /\ skills \in SeqsUpTo(SkillNames, MaxSkills)
    /\ env \in {e \in Envs : e.store = "empty" /\ e.save_ok}
    /\ web_searcher = FALSE
    /\ pc = "idle"
    /\ i = 0
    /\ q = 0
    /\ lists = EmptyLists
    /\ responses = Idle
    /\ web_found = EmptyBuckets
    /\ resources_by_category = EmptyBuckets
    /\ result = NoResult
    /\ concatenated = EmptyBuckets
    /\ store_calls = <<>>
    /\ requests = <<>>
    /\ save_calls = <<>>
    /\ hist = <<>>
    /\ agent_pc = "start"
    /\ tasks = <<>>
    /\ resources_by_skill = NoResult
    /\ combined_recommendations = EmptyBuckets
    /\ calls = <<>>

\* Line 22: one coroutine per missing skill, handed to gather().
AgentStart ==
    /\ agent_pc = "start"
    /\ tasks' = [t \in 1..Len(skills) |->
                    [state |-> "created", resources |-> EmptyBuckets]]
    /\ agent_pc' = "gather"
    /\ UNCHANGED <<skills, env, requests, resources_by_skill,
                   combined_recommendations, service_vars, pair_vars>>

\* A task starts, in creation order: searcher.find_resources_for_skill runs up
\* to its own gather(), the six requests issued.
TaskStart(t) ==
    /\ agent_pc = "gather"
    /\ tasks[t].state = "created"
    /\ \A u \in 1..(t - 1) : tasks[u].state # "created"
    /\ tasks' = [tasks EXCEPT ![t].state = "waiting"]
    /\ requests' = requests \o [k \in 1..6 |-> [iter |-> t, source |-> k]]
    /\ UNCHANGED <<skills, env, agent_pc, resources_by_skill,
                   combined_recommendations, service_vars, pair_vars>>

\* A task's gather() returns, its six requests over: the task parses and
\* returns its dictionary, or a parser's exception ends it.  No response is
\* handled before the event loop has run the first step of every task that
\* gather() scheduled.
TaskResume(t) ==
    /\ agent_pc = "gather"
    /\ tasks[t].state = "waiting"
    /\ \A u \in 1..Len(tasks) : tasks[u].state # "created"
    /\ LET r == standalone_find_resources(env.scen.web, env.scen.fail, skills[t])
       IN  tasks' = [tasks EXCEPT ![t] =
                        [state |-> IF r.raised THEN "raised" ELSE "returned",
                         resources |-> r.resources]]
    /\ UNCHANGED <<skills, env, requests, agent_pc, resources_by_skill,
                   combined_recommendations, service_vars, pair_vars>>

\* Lines 23-47: the outer gather() returns when every task is over; the results
\* are filed by skill and combined.
AgentCollect ==
    /\ agent_pc = "gather"
    /\ \A t \in 1..Len(tasks) : tasks[t].state \in {"returned", "raised"}
    /\ IF gather_raises(tasks)
       THEN /\ agent_pc' = "raised"
            /\ UNCHANGED <<resources_by_skill, combined_recommendations>>
       ELSE /\ agent_pc' = "done"
            /\ resources_by_skill' = CollectBySkill(skills, tasks)
            /\ combined_recommendations' =
                  Combine(skills, CollectBySkill(skills, tasks))
    /\ UNCHANGED <<skills, env, requests, tasks, service_vars, pair_vars>>

NextAgent ==
    \/ AgentStart
    \/ \E t \in 1..Len(tasks) : TaskStart(t)
    \/ \E t \in 1..Len(tasks) : TaskResume(t)
    \/ AgentCollect

SpecAgent == InitAgent /\ [][NextAgent]_vars

\* ------------------------------------------------------------------------
\* Two calls of find_resources_for_skills in flight on one CareerService
\* ------------------------------------------------------------------------
\* The two coroutines run on one event loop: one runs until its next await, then
\* the other may run.  Their locals (the lists of the skill, the dictionary, the
\* set of seen urls) are kept per call; the service, its repository and its
\* web searcher are the same objects for both.
CallIds == {1, 2}

\* The seen urls after the first n categories of the loop of lines 242-248,
\* starting from the set seen_urls.
RECURSIVE SeenAfter(_, _, _)
SeenAfter(by_category, n, seen_urls) ==
    IF n = 0 THEN seen_urls
    ELSE UniqueResources(by_category[Categories[n]],
                         SeenAfter(by_category, n - 1, seen_urls), <<>>).seen

\* Lines 242-248 run on a given set of seen urls.
RemoveDuplicatesFrom(by_category, seen_urls) ==
    [c \in DOMAIN by_category |->
        Capped(UniqueResources(by_category[c],
                               SeenAfter(by_category, CategoryIndex(c) - 1, seen_urls),
                               <<>>).unique)]

\* Mutant of seen_urls_created: the set is kept on the service and never
\* emptied, so a call starts on the urls that the other call has seen.
seen_urls_created_OnService(cs, c) ==
    UNION {cs[d].seen_urls : d \in CallIds \ {c}}

\* Line 241, "seen_urls = set()": a local of the call, created empty.
seen_urls_created(cs, c) ==
    {}

NewCall(skill_list) ==
    [skills |-> skill_list, pc |-> "loop", i |-> 0, lists |-> EmptyLists,
     resources_by_category |-> EmptyBuckets, concatenated |-> EmptyBuckets,
     seen_urls |-> {}, result |-> NoResult, overlapped |-> FALSE]

InFlight(call) ==
    call.pc # "done" /\ (call.i > 0 \/ call.pc # "loop")

\* Two calls about to run on a service with a web searcher.
InitPair ==
    /\ skills = <<>>
    /\ web_searcher = TRUE
    /\ env \in {e \in Envs : /\ e.store \in {"few", "enough", "courses"}
                             /\ e.scen.fail = NoFailure
                             /\ e.scen.web \in {"A", "B"}}
    /\ pc = "idle"
    /\ i = 0
    /\ q = 0
    /\ lists = EmptyLists
    /\ responses = Idle
    /\ web_found = EmptyBuckets
    /\ resources_by_category = EmptyBuckets
    /\ result = NoResult
    /\ concatenated = EmptyBuckets
    /\ store_calls = <<>>
    /\ requests = <<>>
    /\ save_calls = <<>>
    /\ hist = <<>>
    /\ agent_pc = "idle"
    /\ tasks = <<>>
    /\ resources_by_skill = NoResult
    /\ combined_recommendations = EmptyBuckets
    /\ calls \in [CallIds -> {NewCall(sl) : sl \in SeqsUpTo(SkillNames, MaxSkills)}]

\* The call c takes a step to the record next; it notes whether the other call
\* is in flight.
Step(c, next) ==
    calls' = [calls EXCEPT ![c] =
                 [next EXCEPT !.overlapped =
                     calls[c].overlapped
                         \/ \E d \in CallIds \ {c} : InFlight(calls[d])]]

\* Lines 201-225 of call c, and 235-238 when the web is not asked: the four
\* store reads of the next skill and the threshold.
PairSearch(c) ==
    /\ calls[c].pc = "loop"
    /\ calls[c].i < Len(calls[c].skills)
    /\ LET call == calls[c]
           iter == call.i + 1
           skill == call.skills[iter]
           Stamp(r) == [r EXCEPT !.iter = iter]
           found == [category \in Range(QueriedCategories) |->
                        MapSeq(Stamp, search_by_skill(env.store, skill, category,
                                                      SearchLimit))]
       IN  IF NeedsFallback(found, web_searcher)
           THEN Step(c, [call EXCEPT !.i = iter, !.lists = found, !.pc = "web"])
           ELSE Step(c, [call EXCEPT !.i = iter, !.lists = found,
                                     !.resources_by_category =
                                         ExtendBuckets(call.resources_by_category, found)])
    /\ UNCHANGED <<skills, env, requests, service_vars, agent_vars>>

\* Lines 226-238 of call c: find_resources_for_skill returns its lists or
\* raises (a parser, or save_batch), and the lists of the skill are appended.
PairWeb(c) ==
    /\ calls[c].pc = "web"
    /\ LET call == calls[c]
           skill == call.skills[call.i]
           p == ParseAll(Answered(env.scen.web, env.scen.fail, skill))
           found == FoundLists(p, skill, call.i)
           raised == \/ AnyParserRaised(p)
                     \/ (AllResources(found) # <<>> /\ ~env.save_ok)
           merged == IF raised THEN call.lists ELSE ExtendWithWeb(call.lists, found)
       IN  Step(c, [call EXCEPT !.lists = merged, !.pc = "loop",
                                !.resources_by_category =
                                    ExtendBuckets(call.resources_by_category, merged)])
    /\ UNCHANGED <<skills, env, requests, service_vars, agent_vars>>

\* Lines 240-250 of call c, without an await in between: the duplicates are
\* removed and the call returns.
PairDeduplicate(c) ==
    /\ calls[c].pc = "loop"
    /\ calls[c].i = Len(calls[c].skills)
    /\ LET call == calls[c]
           seen_urls == seen_urls_created(calls, c)
           unique == RemoveDuplicatesFrom(call.resources_by_category, seen_urls)
       IN  Step(c, [call EXCEPT !.concatenated = call.resources_by_category,
                                !.resources_by_category = unique,
                                !.seen_urls =
                                    SeenAfter(call.resources_by_category,
                                              Len(Categories), seen_urls),
                                !.result = ToDicts(unique),
                                !.pc = "done"])
    /\ UNCHANGED <<skills, env, requests, service_vars, agent_vars>>

NextPair ==
    \/ \E c \in CallIds : PairSearch(c)
    \/ \E c \in CallIds : PairWeb(c)
    \/ \E c \in CallIds : PairDeduplicate(c)

SpecPair == InitPair /\ [][NextPair]_vars

\* ------------------------------------------------------------------------
\* Properties
\* ------------------------------------------------------------------------
Returned == pc = "done"

\* The n-th skill's resolution is over: its lists are final.
Resolved(n) ==
    n < Len(hist) \/ (n = Len(hist) /\ pc \in {"extend", "loop", "done"})

Indexes(seq) == 1..Len(seq)

\* C1: when the call returns, no bucket holds two resources with the same
\* non-empty url.
C1_NoDuplicateUrl ==
    Returned =>
        \A c \in CategorySet :
            \A a, b \in Indexes(resources_by_category[c]) :
                (a # b /\ resources_by_category[c][a].url # "")
                    => resources_by_category[c][a].url # resources_by_category[c][b].url

\* C1 happens: a url came twice in one category's concatenated list, and the
\* returned bucket holds it.
C1_Witness ==
    /\ Returned
    /\ \E c \in CategorySet :
          \E a, b \in Indexes(concatenated[c]) :
              /\ a < b
              /\ concatenated[c][a].url # ""
              /\ concatenated[c][a].url = concatenated[c][b].url
              /\ \E k \in Indexes(resources_by_category[c]) :
                    resources_by_category[c][k].url = concatenated[c][a].url

\* C2: when the call returns, every bucket has at most 10 elements.
C2_CapRespected ==
    Returned => \A c \in CategorySet : Len(resources_by_category[c]) <= BucketCap

\* C2 happens: a category had more than 10 distinct urls and its bucket holds 10.
C2_Witness ==
    /\ Returned
    /\ \E c \in CategorySet :
          /\ Cardinality({concatenated[c][k].url : k \in Indexes(concatenated[c])}
                             \ {""}) > BucketCap
          /\ Len(resources_by_category[c]) = BucketCap

\* C3: the returned dictionary has exactly the five category keys; for an empty
\* skill list the five lists are empty and no store read, no request and no
\* save_batch was made.
C3_FiveKeys ==
    Returned =>
        /\ DOMAIN result = CategorySet
        /\ skills = <<>> =>
              /\ \A c \in CategorySet : result[c] = <<>>
              /\ store_calls = <<>>
              /\ requests = <<>>
              /\ save_calls = <<>>

\* C3 happens: a call for two skills that went to the web returned the five
\* keys, one of them with an empty list and another with a filled one.
C3_Witness ==
    /\ Returned
    /\ Len(skills) = 2
    /\ requests # <<>>
    /\ DOMAIN result = CategorySet
    /\ \E c, d \in CategorySet : result[c] = <<>> /\ result[d] # <<>>

\* C4: a skill for which the store gave 5 or more resources over the four
\* categories has no request and no save_batch made for it.
C4_ThresholdGating ==
    \A n \in Indexes(hist) :
        StoreCount(hist[n].store) >= FallbackThreshold =>
            /\ \A k \in Indexes(requests) : requests[k].iter # hist[n].iter
            /\ \A k \in Indexes(save_calls) : save_calls[k].iter # hist[n].iter

\* C4 happens: with a web searcher set, one skill had exactly 5 stored resources
\* and another skill of the same call went to the web.
C4_Witness ==
    /\ Returned
    /\ web_searcher
    /\ \E n \in Indexes(hist) : StoreCount(hist[n].store) = FallbackThreshold
    /\ \E n \in Indexes(hist) : StoreCount(hist[n].store) = FallbackThreshold - 1
    /\ requests # <<>>

\* The six outcomes when the request to source k raises and the other five are
\* answered with their pages.
OnlyFails(k, web, skill) ==
    [m \in Sources |->
        [state |-> "done",
         outcome |-> IF m = k THEN [raised |-> TRUE, status |-> 0, body |-> <<>>]
                              ELSE HttpOutcome(web, NoFailure, m, skill)]]

\* C5: when the fetch of one source fails in a skill's fan-out (it raises, or an
\* error status arrives) and save_batch does not fail, find_resources_for_skill
\* does not raise and returns, per category, exactly what the parsers make of
\* the other five pages: nothing comes from the failed source.
C5_SingleFailureIsolated ==
    \A n \in Indexes(hist) :
        (/\ hist[n].fallback
         /\ env.scen.fail.src # 0
         /\ Resolved(n)
         /\ \A k \in Indexes(save_calls) :
               save_calls[k].iter = hist[n].iter => save_calls[k].ok) =>
            /\ ~hist[n].raised
            /\ hist[n].returned
            /\ hist[n].parsed =
                  FoundLists(ParseAll(OnlyFails(env.scen.fail.src, env.scen.web,
                                                hist[n].skill)),
                             hist[n].skill, hist[n].iter)

\* C7: a failing save_batch changes nothing for the caller: the skill's lists
\* that are merged into the buckets are its stored resources followed by the
\* web resources that were parsed.
C7_SaveFailureHarmless ==
    \A n \in Indexes(hist) :
        (/\ Resolved(n)
         /\ n = Len(hist)
         /\ pc = "extend"
         /\ \E k \in Indexes(save_calls) :
               save_calls[k].iter = hist[n].iter /\ ~save_calls[k].ok) =>
            \A c \in DOMAIN lists : lists[c] = hist[n].store[c] \o hist[n].parsed[c]

\* C8 as stated: in every returned bucket no web-derived resource stands before
\* a store-derived one.
C8_StoreBeforeWeb ==
    Returned =>
        \A c \in CategorySet :
            \A a, b \in Indexes(resources_by_category[c]) :
                a < b => ~(/\ resources_by_category[c][a].origin = "web"
                           /\ resources_by_category[c][b].origin = "store")

\* C8 amended: in every returned bucket, among the resources obtained for one
\* position of the skill list, no web-derived resource stands before a
\* store-derived one.
C8_StoreBeforeWebPerSkill ==
    Returned =>
        \A c \in CategorySet :
            \A a, b \in Indexes(resources_by_category[c]) :
                (a < b /\ resources_by_category[c][a].iter = resources_by_category[c][b].iter)
                    => ~(/\ resources_by_category[c][a].origin = "web"
                         /\ resources_by_category[c][b].origin = "store")

\* C8 happens: a returned bucket holds a store-derived and a web-derived
\* resource of the same position of the skill list.
C8_Witness ==
    /\ Returned
    /\ \E c \in CategorySet :
          \E a, b \in Indexes(resources_by_category[c]) :
              /\ resources_by_category[c][a].iter = resources_by_category[c][b].iter
              /\ resources_by_category[c][a].origin = "store"
              /\ resources_by_category[c][b].origin = "web"

\* C9: every returned bucket is what deduplicating its own category's
\* concatenated list alone gives, whatever the other categories hold.
C9_PerCategoryDedup ==
    Returned =>
        \A c \in CategorySet :
            resources_by_category[c] =
                Capped(UniqueResources(concatenated[c], {}, <<>>).unique)

\* C10: every vacancy with a non-empty url that a skill's web search returned
\* is in the returned vacancies bucket, unless the bucket is full or the url was
\* already kept in another bucket.
C10_VacanciesMerged ==
    Returned =>
        \A n \in Indexes(hist) :
            hist[n].returned =>
                \A k \in Indexes(hist[n].parsed["vacancies"]) :
                    LET url == hist[n].parsed["vacancies"][k].url
                    IN  url # "" =>
                            \/ \E c \in CategorySet :
                                  \E m \in Indexes(resources_by_category[c]) :
                                      resources_by_category[c][m].url = url
                            \/ Len(resources_by_category["vacancies"]) = BucketCap

\* C6: run_agent_async never raises because a skill's search raised; once it has
\* combined the results, a skill whose search raised has five empty lists and
\* nothing in the combined lists, and every other skill has all the resources
\* its search returned, in order, in the combined lists.
C6_FailingSkillIsolated ==
    /\ agent_pc # "raised"
    /\ agent_pc = "done" =>
          \A s \in Range(skills) :
              LET t == LastIndexOf(s, skills)
                  Mine(d) == d.skill = s
                  Stamp(d) == [d EXCEPT !.skill = s]
              IN  /\ DOMAIN resources_by_skill[s] = CategorySet
                  /\ \A c \in CategorySet :
                        /\ tasks[t].state = "raised" =>
                              resources_by_skill[s][c] = <<>>
                        /\ SelectSeq(combined_recommendations[c], Mine) =
                              IF tasks[t].state = "raised" THEN <<>>
                              ELSE MapSeq(Stamp, tasks[t].resources[c])

\* C6 happens: the search of one skill raised, the search of another skill
\* returned resources, and the combined lists hold them.
C6_Witness ==
    /\ agent_pc = "done"
    /\ \E t, u \in 1..Len(tasks) :
          /\ skills[t] # skills[u]
          /\ tasks[t].state = "raised"
          /\ tasks[u].state = "returned"
          /\ tasks[u].resources["courses"] # <<>>
          /\ Len(combined_recommendations["courses"]) = Len(tasks[u].resources["courses"])

\* C11: a store read whose query raises never ends the call; once the threshold
\* of that skill is evaluated, the category of the failed read is empty, the
\* four reads of the skill were all made, the other categories hold what the
\* store has for them, and the web fallback is decided on the count that is
\* left; when the call returns every skill went through its threshold.
C11_StoreReadFailureDegrades ==
    /\ pc # "aborted"
    /\ Returned => Len(hist) = Len(skills)
    /\ \A k \in Indexes(store_calls) :
          (store_calls[k].failed /\ store_calls[k].iter \in Indexes(hist)) =>
              LET n == store_calls[k].iter
                  Failed(c) == QueryRaises(env.store, hist[n].skill, c)
              IN  /\ hist[n].store[store_calls[k].category] = <<>>
                  /\ \A c \in Range(QueriedCategories) :
                        /\ \E j \in Indexes(store_calls) :
                              store_calls[j].iter = n /\ store_calls[j].category = c
                        /\ ~Failed(c) =>
                              Len(hist[n].store[c]) =
                                  Len(search_by_skill(env.store, hist[n].skill, c,
                                                      SearchLimit))
                  /\ hist[n].fallback =
                        (web_searcher /\ StoreCount(hist[n].store) < FallbackThreshold)
                  /\ (hist[n].fallback /\ Resolved(n)) =>
                        \E j \in Indexes(requests) : requests[j].iter = n

\* C11 happens: in a call for two skills that returned, the read of one
\* category of the first skill failed, its other categories were read and hold
\* resources, the count fell below the threshold and the web was asked.
C11_Witness ==
    /\ Returned
    /\ Len(skills) = 2
    /\ \E k \in Indexes(store_calls) :
          /\ store_calls[k].failed
          /\ store_calls[k].iter = 1
          /\ \E j \in Indexes(store_calls) :
                store_calls[j].iter = 1 /\ ~store_calls[j].failed
          /\ hist[1].store["courses"] # <<>>
          /\ hist[1].fallback
          /\ \E j \in Indexes(requests) : requests[j].iter = 1
    /\ resources_by_category["courses"] # <<>>

\* C12: no parser lets an exception out: whatever the pages hold, a web
\* fallback whose save_batch does not fail returns its lists and does not raise.
C12_ParsersNeverRaise ==
    \A n \in Indexes(hist) :
        (/\ hist[n].fallback
         /\ Resolved(n)
         /\ \A k \in Indexes(save_calls) :
               save_calls[k].iter = hist[n].iter => save_calls[k].ok) =>
            /\ ~hist[n].raised
            /\ hist[n].returned

\* C13: the resolutions of all skills are started before any of them is over:
\* once the lists of one skill are final, the store has been read for every
\* skill of the list.
C13_AllSkillsStartedFirst ==
    \A n \in Indexes(hist) :
        Resolved(n) =>
            \A m \in 1..Len(skills) :
                \E k \in Indexes(store_calls) : store_calls[k].iter = m

\* C14: in a fan-out no response arrives before all six requests are under
\* way, and nothing is parsed, saved or handed back before each of the six has
\* ended with its own outcome: a request that failed did not stop the others.
C14_AllSixBeforeParsing ==
    /\ (\E k \in Sources : responses[k].state = "done") =>
          \A k \in Sources : responses[k].state \in {"pending", "done"}
    /\ pc \in {"save_batch", "saving", "web_return", "web_raised"} =>
          \A k \in Sources :
              /\ responses[k].state = "done"
              /\ responses[k].outcome =
                    HttpOutcome(env.scen.web, env.scen.fail, k, skills[i])

\* C14 happens: one request of a fan-out raised, the other five were answered
\* with status 200, and the parsed lists are about to be saved.
C14_Witness ==
    /\ pc = "save_batch"
    /\ \E k \in Sources :
          /\ responses[k].state = "done"
          /\ responses[k].outcome.raised
          /\ \A m \in Sources \ {k} :
                /\ responses[m].state = "done"
                /\ ~responses[m].outcome.raised
                /\ responses[m].outcome.status = HttpOk
    /\ web_found["articles"] # <<>>

\* C15: for a skill with fewer than 5 stored resources and a web searcher set,
\* once the fan-out has started each of the six sources was asked exactly once,
\* and it stays so until the call returns, whatever the requests end with.
C15_OneRequestPerSource ==
    \A n \in Indexes(hist) :
        (/\ web_searcher
         /\ StoreCount(hist[n].store) < FallbackThreshold
         /\ (n < Len(hist) \/ pc # "web_start")) =>
            \A k \in Sources :
                Cardinality({j \in Indexes(requests) :
                                /\ requests[j].iter = hist[n].iter
                                /\ requests[j].source = k}) = 1

\* C15 happens: a call for two skills returned, both went to the web, one
\* source failed each time, and twelve requests were made in all.
C15_Witness ==
    /\ Returned
    /\ Len(skills) = 2
    /\ \A n \in Indexes(hist) : hist[n].fallback
    /\ env.scen.fail.src # 0
    /\ Len(requests) = 12

\* C16: the lists of a web fallback are handed back without waiting for
\* save_batch: while the save_batch of a skill is still running, the return of
\* find_resources_for_skill to CareerService can take place.
C16_ReturnBeforeSaveCompletes ==
    pc = "saving" => ENABLED WebReturn

\* C17: every web-derived resource that find_resources_for_skill parsed, passed
\* to save_batch or that stands in a bucket carries the skill of the position
\* of the skill list it was searched for.
C17_WebCandidatesCarrySkill ==
    /\ \A n \in Indexes(hist) :
          \A c \in CategorySet :
              \A j \in Indexes(hist[n].parsed[c]) :
                  hist[n].parsed[c][j].skill = skills[n]
    /\ \A k \in Indexes(save_calls) :
          \A j \in Indexes(save_calls[k].resources) :
              save_calls[k].resources[j].skill = skills[save_calls[k].iter]
    /\ \A c \in CategorySet :
          \A a \in Indexes(resources_by_category[c]) :
              resources_by_category[c][a].origin = "web" =>
                  resources_by_category[c][a].skill =
                      skills[resources_by_category[c][a].iter]

\* C17 happens: a call for two different skills returned, the web resources of
\* both were saved, vacancies included, and one bucket holds web resources of
\* both skills.
C17_Witness ==
    /\ Returned
    /\ Len(skills) = 2
    /\ skills[1] # skills[2]
    /\ Len(save_calls) = 2
    /\ \E j \in Indexes(save_calls[1].resources) :
          save_calls[1].resources[j].resource_type = VACANCY
    /\ \E c \in CategorySet :
          \E a, b \in Indexes(resources_by_category[c]) :
              /\ resources_by_category[c][a].origin = "web"
              /\ resources_by_category[c][b].origin = "web"
              /\ resources_by_category[c][a].skill = skills[1]
              /\ resources_by_category[c][b].skill = skills[2]

\* C18: in every bucket the resources stand in the order of the skill list: a
\* resource obtained for an earlier position of the list never stands after one
\* obtained for a later position.
C18_SkillOrderKept ==
    \A c \in CategorySet :
        \A a, b \in Indexes(resources_by_category[c]) :
            a < b => resources_by_category[c][a].iter <= resources_by_category[c][b].iter

\* C18 happens: a call for two different skills that both went to the web
\* returned, and one bucket holds resources of both.
C18_Witness ==
    /\ Returned
    /\ Len(skills) = 2
    /\ skills[1] # skills[2]
    /\ \A n \in Indexes(hist) : hist[n].fallback /\ hist[n].returned
    /\ \E c \in CategorySet :
          \E a, b \in Indexes(resources_by_category[c]) :
              /\ resources_by_category[c][a].iter = 1
              /\ resources_by_category[c][b].iter = 2

C20_CourseTitlesNonEmpty ==
    \A n \in Indexes(hist) :
        hist[n].returned =>
            \A j \in Indexes(hist[n].parsed["courses"]) :
                hist[n].parsed["courses"][j].title # ""

\* ------------------------------------------------------------------------
\* Properties of the parsers and of the web fallback
\* ------------------------------------------------------------------------
\* metadata["source"] of the resources built from the answer of source k.
SourceName(k) ==
    CASE k = COURSERA -> "coursera"
      [] k = STEPIK -> "stepik"
      [] k = HABR_ARTICLES -> "habr"
      [] k = HABR_VACANCIES -> "habr_career"
      [] k = GITHUB -> "github"
      [] k = KAGGLE -> "kaggle"

\* The category whose list takes the resources of source k.
CategoryOf(k) ==
    CASE k \in {COURSERA, STEPIK} -> "courses"
      [] k = HABR_ARTICLES -> "articles"
      [] k = HABR_VACANCIES -> "vacancies"
      [] k = GITHUB -> "projects"
      [] k = KAGGLE -> "competitions"

\* a can be obtained from b by leaving elements out.
RECURSIVE IsSubSeq(_, _)
IsSubSeq(a, b) ==
    IF a = <<>> THEN TRUE
    ELSE IF b = <<>> THEN FALSE
    ELSE IF Head(a) = Head(b) THEN IsSubSeq(Tail(a), Tail(b))
    ELSE IsSubSeq(a, Tail(b))

\* Title and url of every resource of a list.
Cores(rs) ==
    [k \in 1..Len(rs) |-> <<rs[k].title, rs[k].url>>]

\* The resources of a list that were built from the answer of source k.
FromSource(rs, k) ==
    SelectSeq(rs, LAMBDA r : r.source = SourceName(k))

\* The entries of the payload of source k as its parser receives it, and what
\* the parser builds from one entry.
PayloadOf(resp, k) ==
    IF k = GITHUB THEN github_json(github_get(resp[k].outcome)).repos
    ELSE fetch_text(resp[k].outcome)

BuiltFrom(k, entry) ==
    CASE k = COURSERA -> CourseraCourse(entry)
      [] k = STEPIK -> StepikCourse(entry)
      [] k = HABR_ARTICLES -> HabrArticle(entry)
      [] k = HABR_VACANCIES -> HabrVacancy(entry)
      [] k = GITHUB -> GithubProject(entry)
      [] k = KAGGLE -> KaggleCompetition(entry)

\* find_resources_for_skill holds the lists it parsed from the six answers.
Parsing == pc \in {"save_batch", "saving", "web_return"}

\* C21: the lists parsed for a skill hold at most 6 courses and at most 3
\* resources in each other category; the resources built from one source are
\* at most 3, and they are built from the first 3 entries of its payload, in
\* the order of the payload.
C21_TopThreePerParser ==
    /\ \A n \in Indexes(hist) :
          \A c \in CategorySet :
              Len(hist[n].parsed[c]) <= (IF c = "courses" THEN 2 * TopN ELSE TopN)
    /\ Parsing =>
          \A k \in Sources :
              LET payload == PayloadOf(responses, k)
                  first == [p \in 1..(IF Len(payload) < 3 THEN Len(payload) ELSE 3) |->
                               BuiltFrom(k, payload[p])]
                  mine == FromSource(web_found[CategoryOf(k)], k)
              IN  /\ Len(mine) <= TopN
                  /\ IsSubSeq(Cores(mine), Cores(first))

\* C21 happens: the answers of two sources list more than 3 entries, 3 resources
\* were built from one of them and fewer from the other, which has a blank title
\* among its first 3.
C21_Witness ==
    /\ Parsing
    /\ Len(PayloadOf(responses, STEPIK)) > TopN
    /\ Len(FromSource(web_found["courses"], STEPIK)) = TopN
    /\ Len(PayloadOf(responses, COURSERA)) > TopN
    /\ Len(FromSource(web_found["courses"], COURSERA)) = 2
    /\ Len(PayloadOf(responses, GITHUB)) > TopN
    /\ Len(web_found["projects"]) = TopN

\* C22: in the lists that the web search of a skill returned, a source whose
\* response carried a status outside 200..299 has no resource, whatever the
\* body of the response holds, and a source whose response carried a status
\* within 200..299 has the resources its parser builds from the body.
C22_NonOkStatusIsFailure ==
    \A n \in Indexes(hist) :
        hist[n].returned =>
            \A k \in Sources :
                LET outcome == HttpOutcome(env.scen.web, env.scen.fail, k, hist[n].skill)
                    mine == FromSource(hist[n].parsed[CategoryOf(k)], k)
                    entries == IF k = GITHUB THEN outcome.body.repos ELSE outcome.body
                    built == [p \in 1..(IF Len(entries) < 3 THEN Len(entries) ELSE 3) |->
                                 BuiltFrom(k, entries[p])]
                    expected == IF k = COURSERA
                                THEN SelectSeq(built, LAMBDA r : r.title # "")
                                ELSE built
                IN  ~outcome.raised =>
                        IF outcome.status \in 200..299
                        THEN Cores(mine) = Cores(expected)
                        ELSE mine = <<>>

\* The origin that the parser of a course source puts in front of a link.
OriginOf(k) ==
    CASE k = COURSERA -> "https://www.coursera.org"
      [] k = STEPIK -> "https://stepik.org"

IsAbsoluteUrl(link) ==
    Len(link) >= 8 /\ SubSeq(link, 1, 8) = "https://"

\* C23: every course with a link in the lists that the web search of a skill
\* returned has an absolute url: the link of one of the first 3 entries of its
\* source's page, with the origin of the source in front if the link is
\* relative and unchanged if the link is absolute.
C23_CourseUrlsAbsolute ==
    \A n \in Indexes(hist) :
        hist[n].returned =>
            \A k \in {COURSERA, STEPIK} :
                LET page == fetch_text(HttpOutcome(env.scen.web, env.scen.fail, k,
                                                   hist[n].skill))
                    mine == FromSource(hist[n].parsed["courses"], k)
                IN  \A j \in Indexes(mine) :
                        mine[j].url # "" =>
                            /\ IsAbsoluteUrl(mine[j].url)
                            /\ \E p \in Indexes(page) :
                                  /\ p <= 3
                                  /\ page[p].link_tag
                                  /\ mine[j].url =
                                        IF IsAbsoluteUrl(page[p].href) THEN page[p].href
                                        ELSE OriginOf(k) \o page[p].href

\* The resources that the parsers of lines 204-208 have built, in the order of
\* all_resources, when the parsing is over or the first parser has raised.
RECURSIVE BuiltUntilRaise(_)
BuiltUntilRaise(outcomes) ==
    IF outcomes = <<>> THEN <<>>
    ELSE IF Head(outcomes).raised THEN <<>>
    ELSE Head(outcomes).out \o BuiltUntilRaise(Tail(outcomes))

Produced(web, fail, skill) ==
    LET p == ParseAll(Answered(web, fail, skill))
    IN  BuiltUntilRaise(<<p.courses1, p.courses2, p.articles, p.vacancies,
                          p.projects, p.competitions>>)

\* C24: save_batch is called only for a skill whose web fallback runs and only
\* with web-derived resources; once the fallback of a skill is over, save_batch
\* was called exactly once for it, with all the resources that the parsers built
\* for the five categories, if they built any, and not at all if they built
\* none.
C24_SaveBatchOncePerFallback ==
    /\ \A k \in Indexes(save_calls) :
          /\ hist[save_calls[k].iter].fallback
          /\ \A j \in Indexes(save_calls[k].resources) :
                save_calls[k].resources[j].origin = "web"
    /\ \A n \in Indexes(hist) :
          LET mine == {k \in Indexes(save_calls) : save_calls[k].iter = hist[n].iter}
              produced == Produced(env.scen.web, env.scen.fail, hist[n].skill)
          IN  (hist[n].fallback /\ Resolved(n)) =>
                  IF produced = <<>> THEN mine = {}
                  ELSE /\ Cardinality(mine) = 1
                       /\ \A k \in mine :
                             Cores(save_calls[k].resources) = Cores(produced)

\* C25: a call that ran while another call was in flight on the same service
\* returns, in every bucket, what removing the duplicates of its own lists
\* alone gives: no resource is missing because of a url of the other call.
C25_SeenUrlsPerCall ==
    \A c \in DOMAIN calls :
        calls[c].pc = "done" =>
            /\ calls[c].resources_by_category = RemoveDuplicates(calls[c].concatenated)
            /\ \A category \in CategorySet :
                  \A k \in Indexes(calls[c].concatenated[category]) :
                      LET url == calls[c].concatenated[category][k].url
                      IN  (/\ url # ""
                           /\ \A b \in CategorySet :
                                 \A j \in Indexes(calls[c].resources_by_category[b]) :
                                     calls[c].resources_by_category[b][j].url # url) =>
                              \E b \in CategorySet :
                                  Len(calls[c].resources_by_category[b]) = BucketCap

\* C25 happens: both calls have returned, each took steps while the other was
\* in flight, and one url stands in a bucket of both results.
C25_Witness ==
    /\ DOMAIN calls = CallIds
    /\ \A c \in CallIds : calls[c].pc = "done" /\ calls[c].overlapped
    /\ \E category \in CategorySet :
          \E a \in Indexes(calls[1].resources_by_category[category]) :
              \E b \in Indexes(calls[2].resources_by_category[category]) :
                  calls[1].resources_by_category[category][a].url =
                      calls[2].resources_by_category[category][b].url

\* C26: every call of find_resources_for_skills eventually returns its result,
\* given that every store call and every request ends.
C26_EventuallyReturns ==
    <>(Returned /\ DOMAIN result = CategorySet)

\* C26 happens: a call for two skills has returned after a request of each of
\* its two fan-outs had ended with an exception (a timeout) and a save_batch
\* had failed.
C26_Witness ==
    /\ Returned
    /\ Len(skills) = 2
    /\ Len(requests) = 12
    /\ env.scen.fail.kind = "error"
    /\ ~env.save_ok
    /\ \E n \in Indexes(hist) : hist[n].raised
    /\ DOMAIN result = CategorySet

\* The lists of the n-th skill are appended to the dictionary.
Appended(n) ==
    n < Len(hist) \/ (n = Len(hist) /\ pc \in {"loop", "done"})

\* What the n-th skill added to the sequence of a category.
AddedBy(n, category) ==
    SelectSeq(IF Returned THEN concatenated[category]
              ELSE resources_by_category[category],
              LAMBDA r : r.iter = hist[n].iter)

\* C27: for every skill and every category, what the skill added to the
\* category's sequence is its store-derived resources, in the order of the
\* store's answer, followed by the web-derived resources that were parsed for
\* it, in the order of the parsed list; the parsed courses are those of the
\* first course endpoint followed by those of the second.
C27_StoreThenWebInOrder ==
    \A n \in Indexes(hist) :
        Appended(n) =>
            \A c \in CategorySet :
                LET stored == IF c \in DOMAIN hist[n].store THEN hist[n].store[c]
                              ELSE <<>>
                    web == hist[n].parsed[c]
                IN  /\ AddedBy(n, c) = stored \o web
                    /\ c \in DOMAIN hist[n].store =>
                          Cores(stored) =
                              Cores(search_by_skill(env.store, hist[n].skill, c,
                                                    SearchLimit))
                    /\ c = "courses" =>
                          web = FromSource(web, COURSERA) \o FromSource(web, STEPIK)

\* C28: when the web fallback of a skill has raised, no exception ends the
\* call; what the skill adds to every category is its store-derived resources
\* and nothing else; and when the call returns, the store was read for every
\* skill of the list and every skill went through its threshold.
C28_FallbackErrorSwallowed ==
    /\ pc # "aborted"
    /\ \A n \in Indexes(hist) :
          hist[n].raised =>
              /\ Appended(n) =>
                    \A c \in CategorySet :
                        AddedBy(n, c) = IF c \in DOMAIN hist[n].store
                                        THEN hist[n].store[c] ELSE <<>>
              /\ \A c \in CategorySet :
                    \A a \in Indexes(resources_by_category[c]) :
                        resources_by_category[c][a].iter = hist[n].iter =>
                            resources_by_category[c][a].origin = "store"
              /\ Returned =>
                    /\ Len(hist) = Len(skills)
                    /\ DOMAIN result = CategorySet
                    /\ \A m \in 1..Len(skills) :
                          \E k \in Indexes(store_calls) : store_calls[k].iter = m

\* C28 happens: a call for two skills returned; the fallback of the first skill
\* raised and its stored courses are in the bucket; the fallback of the second
\* skill returned and its web courses are in the bucket.
C28_Witness ==
    /\ Returned
    /\ Len(skills) = 2
    /\ hist[1].raised
    /\ hist[1].store["courses"] # <<>>
    /\ hist[2].returned
    /\ \E a, b \in Indexes(resources_by_category["courses"]) :
          /\ resources_by_category["courses"][a].iter = 1
          /\ resources_by_category["courses"][a].origin = "store"
          /\ resources_by_category["courses"][b].iter = 2
          /\ resources_by_category["courses"][b].origin = "web"

\* C29: once the web fallback of a skill is over, every resource without url
\* that the parser of the articles, of the vacancies or of the competitions
\* built for the skill was handed to save_batch, in one call that was given all
\* the resources that the parsers built for the skill; and no resource without
\* url stands in a bucket of the returned dictionary.
C29_EmptyUrlSavedNotReturned ==
    /\ \A n \in Indexes(hist) :
          LET produced == Produced(env.scen.web, env.scen.fail, hist[n].skill)
          IN  (hist[n].fallback /\ Resolved(n)) =>
                  \A j \in Indexes(produced) :
                      (/\ produced[j].url = ""
                       /\ produced[j].resource_type \in {ARTICLE, VACANCY, COMPETITION}) =>
                          \E k \in Indexes(save_calls) :
                              /\ save_calls[k].iter = hist[n].iter
                              /\ Cores(save_calls[k].resources) = Cores(produced)
    /\ Returned =>
          \A c \in CategorySet :
              /\ \A a \in Indexes(resources_by_category[c]) :
                    resources_by_category[c][a].url # ""
              /\ \A a \in Indexes(result[c]) : result[c][a].url # ""

\* C30: when the call returns, for every category whose bucket holds fewer than
\* 10 resources, every non-empty url of a resource of that category's
\* concatenated list is the url of a resource in the bucket of some category.
C30_LostOnlyByDuplicationOrCap ==
    Returned =>
        \A c \in CategorySet :
            Len(resources_by_category[c]) < BucketCap =>
                \A k \in Indexes(concatenated[c]) :
                    concatenated[c][k].url # "" =>
                        \E d \in CategorySet :
                            \E a \in Indexes(resources_by_category[d]) :
                                resources_by_category[d][a].url = concatenated[c][k].url
====
